---------------------------- MODULE Spec2Model ----------------------------
(***************************************************************************)
(* A model of libcst/nodes/_internal.py: the code generation state         *)
(* (CodegenState, SyntacticCodegenState) and the traversal helpers         *)
(* (visit_required, visit_optional, visit_sentinel, visit_iterable,        *)
(* visit_sequence).                                                        *)
(*                                                                         *)
(* A Python str is modelled as a sequence of one-character strings, so     *)
(* that len() is Len and the newline regular expression can be run on it.  *)
(***************************************************************************)
EXTENDS Integers, Sequences, FiniteSets, TLC

VARIABLES
    provider,       \* CodegenState.provider
    indent_tokens,  \* CodegenState.indent_tokens
    tokens,         \* CodegenState.tokens
    line,           \* CodegenState.line
    column,         \* CodegenState.column
    metadata,       \* node |-> node._metadata (a dict: provider |-> CodeRange)
    frames,         \* the open record_syntactic_position scopes, innermost last
    exc,            \* the exception in flight, or NoException
    failed_at,      \* the cursor when exc was raised, NoPosition before
    hist,           \* the most recent operations, newest first, each with the
                    \* state it was called in
    keep,           \* how many operations hist keeps
    call            \* the last call of a traversal helper, with its outcome

vars == <<provider, indent_tokens, tokens, line, column, metadata, frames,
          exc, failed_at, hist, keep, call>>

-----------------------------------------------------------------------------
(* Bounds of the model. *)

MaxTokenLen == 2

MaxTokens == 2

MaxIndent == 2

MaxDepth == 2

\* The operations of an indented block: increase_indent, add_indent_tokens,
\* decrease_indent.
BlockOps == 3

MaxChildren == 3

-----------------------------------------------------------------------------
(* Values. *)

CR == "\r"

LF == "\n"

Chars == {"a", CR, LF}

RECURSIVE StringsOfLen(_)
StringsOfLen(n) ==
    IF n = 0 THEN {<< >>}
    ELSE {Append(s, c) : s \in StringsOfLen(n - 1), c \in Chars}

TokenValues == UNION {StringsOfLen(n) : n \in 0..MaxTokenLen}

\* The emission of the cursor arithmetic example: "abc", "de\nfgh", "\r\n", "x".
ExampleTokens ==
    << <<"a", "b", "c">>,
       <<"d", "e", LF, "f", "g", "h">>,
       <<CR, LF>>,
       <<"x">> >>

IsExamplePrefix(toks) ==
    /\ Len(toks) <= Len(ExampleTokens)
    /\ toks = SubSeq(ExampleTokens, 1, Len(toks))

\* What the basic machine emits: a word, a line break, and a carriage return
\* that a following line break completes.
EmitValues == {<<"a">>, <<LF>>}

IndentValues == {<<" ", " ">>, <<"\t">>}

Nodes == {"parent", "child"}

BasicPositionProvider == "BasicPositionProvider"

SyntacticPositionProvider == "SyntacticPositionProvider"

NoException == "none"

CodePosition(l, c) == [line |-> l, column |-> c]

\* No position: lines count from 1.
NoPosition == CodePosition(0, 0)

CodeRange(start, end) == [start |-> start, end |-> end]

\* CodeRange.create(start, end) from two (line, column) pairs.
CodeRangeCreate(start, end) ==
    CodeRange(CodePosition(start[1], start[2]), CodePosition(end[1], end[2]))

\* The ranges a node's codegen hands to record_position.
P1 == CodeRangeCreate(<<1, 0>>, <<1, 1>>)

P2 == CodeRangeCreate(<<1, 0>>, <<2, 0>>)

RangeValues == {P1, P2}

-----------------------------------------------------------------------------
(* NEWLINE_RE = re.compile(r"\r\n?|\n") and NEWLINE_RE.split(value): the    *)
(* scan goes left to right; at a "\r" the greedy "\n?" takes a directly     *)
(* following "\n" into the same match.                                      *)

\* The length of the match of NEWLINE_RE at position i of value, 0 if none.
NewlineMatchLen(value, i) ==
    IF value[i] = CR
    THEN IF i + 1 <= Len(value) /\ value[i + 1] = LF THEN 2 ELSE 1
    ELSE IF value[i] = LF THEN 1 ELSE 0

RECURSIVE SplitFrom(_, _, _, _)
SplitFrom(value, i, cur, segs) ==
    IF i > Len(value) THEN Append(segs, cur)
    ELSE LET m == NewlineMatchLen(value, i) IN
         IF m = 0
         THEN SplitFrom(value, i + 1, Append(cur, value[i]), segs)
         ELSE SplitFrom(value, i + m, << >>, Append(segs, cur))

NewlineSplit(value) == SplitFrom(value, 1, << >>, << >>)

\* CodegenState._update_position with the column reset to 0 at a newline,
\* whatever follows it.
UpdatePositionColumnReset(pos, value) ==
    LET segments == NewlineSplit(value) IN
    IF Len(segments) = 1
    THEN CodePosition(pos.line, pos.column + Len(value))
    ELSE CodePosition(pos.line + (Len(segments) - 1), 0)

\* CodegenState._update_position with the line assigned, not advanced
\* (self.line = len(segments) - 1).
UpdatePositionLineAssigned(pos, value) ==
    LET segments == NewlineSplit(value) IN
    IF Len(segments) = 1
    THEN CodePosition(pos.line, pos.column + Len(value))
    ELSE CodePosition(Len(segments) - 1, Len(segments[Len(segments)]))

\* CodegenState._update_position on the cursor pos.
UpdatePosition(pos, value) ==
    LET segments == NewlineSplit(value) IN
    IF Len(segments) = 1
    THEN CodePosition(pos.line, pos.column + Len(value))
    ELSE CodePosition(pos.line + (Len(segments) - 1),
                      Len(segments[Len(segments)]))

\* The loop of add_indent_tokens left after its first token.
UpdatePositionFirstOnly(pos, toks) ==
    IF toks = << >> THEN pos
    ELSE UpdatePosition(pos, Head(toks))

\* for token in toks: self._update_position(token)
RECURSIVE UpdatePositionAll(_, _)
UpdatePositionAll(pos, toks) ==
    IF toks = << >> THEN pos
    ELSE UpdatePositionAll(UpdatePosition(pos, Head(toks)), Tail(toks))

-----------------------------------------------------------------------------
(* The state an operation is called in, and the log of operations.          *)

Snapshot ==
    [provider |-> provider, indent_tokens |-> indent_tokens,
     tokens |-> tokens, line |-> line, column |-> column,
     metadata |-> metadata, frames |-> frames, exc |-> exc,
     failed_at |-> failed_at]

Logged(entry) ==
    LET all == <<entry>> \o hist IN
    SubSeq(all, 1, IF Len(all) < keep THEN Len(all) ELSE keep)

Cursor == CodePosition(line, column)

-----------------------------------------------------------------------------
(* CodegenState *)

\* A pop that returns quietly on an empty list (if stack: stack.pop()).
PopIndentSilent(stack) ==
    IF stack = << >>
    THEN [stack |-> stack, exc |-> NoException]
    ELSE [stack |-> SubSeq(stack, 1, Len(stack) - 1), exc |-> NoException]

\* A pop of the wrong end of the list (stack.pop(0)).
PopIndentOutermost(stack) ==
    IF stack = << >>
    THEN [stack |-> stack, exc |-> "IndexError"]
    ELSE [stack |-> Tail(stack), exc |-> NoException]

\* list.pop() of the indent stack; on an empty list it raises IndexError.
PopIndent(stack) ==
    IF stack = << >>
    THEN [stack |-> stack, exc |-> "IndexError"]
    ELSE [stack |-> SubSeq(stack, 1, Len(stack) - 1), exc |-> NoException]

\* add_token putting the value in front of the buffer (tokens.insert(0, value)).
AddTokenInFront(value) ==
    /\ exc = NoException
    /\ tokens' = <<value>> \o tokens
    /\ LET pos == UpdatePosition(Cursor, value) IN
       /\ line' = pos.line
       /\ column' = pos.column
    /\ hist' = Logged([op |-> "add_token", value |-> value, pre |-> Snapshot])
    /\ UNCHANGED <<provider, indent_tokens, metadata, frames, exc, failed_at, keep, call>>

\* CodegenState.add_token, whatever the value.
AddToken(value) ==
    /\ exc = NoException
    /\ tokens' = Append(tokens, value)
    /\ LET pos == UpdatePosition(Cursor, value) IN
       /\ line' = pos.line
       /\ column' = pos.column
    /\ hist' = Logged([op |-> "add_token", value |-> value, pre |-> Snapshot])
    /\ UNCHANGED <<provider, indent_tokens, metadata, frames, exc, failed_at, keep, call>>

add_token(value) ==
    /\ Len(tokens) < MaxTokens
    /\ AddToken(value)

\* add_token with the next token of the cursor arithmetic example.
add_example_token ==
    /\ IsExamplePrefix(tokens)
    /\ Len(tokens) < Len(ExampleTokens)
    /\ AddToken(ExampleTokens[Len(tokens) + 1])

\* increase_indent building the longer list without storing it.
increase_indent_discarded(value) ==
    /\ exc = NoException
    /\ Len(indent_tokens) < MaxIndent
    /\ indent_tokens' = indent_tokens
    /\ hist' = Logged([op |-> "increase_indent", value |-> value,
                       pre |-> Snapshot])
    /\ UNCHANGED <<provider, tokens, line, column, metadata, frames, exc, failed_at, keep, call>>

increase_indent(value) ==
    /\ exc = NoException
    /\ Len(indent_tokens) < MaxIndent
    /\ indent_tokens' = Append(indent_tokens, value)
    /\ hist' = Logged([op |-> "increase_indent", value |-> value,
                       pre |-> Snapshot])
    /\ UNCHANGED <<provider, tokens, line, column, metadata, frames, exc, failed_at, keep, call>>

decrease_indent ==
    /\ exc = NoException
    /\ LET r == PopIndent(indent_tokens) IN
       /\ indent_tokens' = r.stack
       /\ exc' = r.exc
       /\ failed_at' = IF r.exc = NoException THEN failed_at ELSE Cursor
    /\ hist' = Logged([op |-> "decrease_indent", pre |-> Snapshot])
    /\ UNCHANGED <<provider, tokens, line, column, metadata, frames, keep, call>>

add_indent_tokens ==
    /\ exc = NoException
    /\ Len(tokens) + Len(indent_tokens) <= MaxTokens
    /\ tokens' = tokens \o indent_tokens
    /\ LET pos == UpdatePositionAll(Cursor, indent_tokens) IN
       /\ line' = pos.line
       /\ column' = pos.column
    /\ hist' = Logged([op |-> "add_indent_tokens", pre |-> Snapshot])
    /\ UNCHANGED <<provider, indent_tokens, metadata, frames, exc, failed_at, keep, call>>

-----------------------------------------------------------------------------
(* Position recording. A dict is a function on the set of its keys.         *)

EmptyDict == [k \in {} |-> k]

DictSet(d, key, value) ==
    [k \in DOMAIN d \cup {key} |-> IF k = key THEN value ELSE d[k]]

\* record_position without its test: the last write wins.
RecordPositionOverwrite(meta, prov, node, position) ==
    [meta EXCEPT ![node] = DictSet(@, prov, position)]

\* The body of CodegenState.record_position: the metadata of all nodes after
\* the call.
RecordPosition(meta, prov, node, position) ==
    IF prov \notin DOMAIN meta[node]
    THEN [meta EXCEPT ![node] = DictSet(@, prov, position)]
    ELSE meta

record_position(node, position) ==
    /\ exc = NoException
    /\ metadata' = RecordPosition(metadata, provider, node, position)
    /\ hist' = Logged([op |-> "record_position", node |-> node,
                       position |-> position, pre |-> Snapshot])
    /\ UNCHANGED <<provider, indent_tokens, tokens, line, column, frames, exc,
                   failed_at, keep, call>>

IsSyntactic == provider = SyntacticPositionProvider

\* record_syntactic_position up to its yield, as the locals it holds while
\* the body runs: SyntacticCodegenState takes the cursor as start,
\* CodegenState takes nothing.
ScopeEntered(node) ==
    IF IsSyntactic THEN [start |-> Cursor] ELSE EmptyDict

\* record_syntactic_position without try/finally: the range is stored only
\* when the body returns.
ScopeLeftNoFinally(meta, node, locals) ==
    IF IsSyntactic /\ exc = NoException
    THEN [meta EXCEPT ![node] =
              DictSet(@, provider, CodeRange(locals.start, Cursor))]
    ELSE meta

\* record_syntactic_position with the two ends of the range exchanged.
ScopeLeftSwapped(meta, node, locals) ==
    IF IsSyntactic
    THEN [meta EXCEPT ![node] =
              DictSet(@, provider, CodeRange(Cursor, locals.start))]
    ELSE meta

\* record_syntactic_position storing a fresh dict that holds its range only.
ScopeLeftFreshDict(meta, node, locals) ==
    IF IsSyntactic
    THEN [meta EXCEPT ![node] =
              DictSet(EmptyDict, provider, CodeRange(locals.start, Cursor))]
    ELSE meta

\* record_syntactic_position of the base class storing an empty range at the
\* cursor when its scope is left.
ScopeLeftBasicRecords(meta, node, locals) ==
    [meta EXCEPT ![node] =
         DictSet(@, provider,
                 CodeRange(IF IsSyntactic THEN locals.start ELSE Cursor,
                           Cursor))]

\* record_syntactic_position storing its range under the provider of the
\* base class.
ScopeLeftBasicKey(meta, node, locals) ==
    IF IsSyntactic
    THEN [meta EXCEPT ![node] =
              DictSet(@, BasicPositionProvider,
                      CodeRange(locals.start, Cursor))]
    ELSE meta

\* record_syntactic_position after its yield: the finally clause of
\* SyntacticCodegenState stores the range, CodegenState does nothing. The
\* clause runs the same when the body returned and when it raised.
ScopeLeft(meta, node, locals) ==
    IF IsSyntactic
    THEN [meta EXCEPT ![node] =
              DictSet(@, provider, CodeRange(locals.start, Cursor))]
    ELSE meta

\* The open scopes rest after the scopes of nodes were closed inside the
\* innermost of them.
ClosedInside(rest, nodes) ==
    IF rest = << >> THEN rest
    ELSE [rest EXCEPT ![Len(rest)].inner = @ \cup nodes]

\* record_syntactic_position is entered: frames gets the node, the cursor at
\* the entry, the locals of the context manager and, empty yet, the nodes
\* whose scopes are opened and closed inside this one (kept when tracked).
EnterScope(node, tracked) ==
    /\ Len(frames) < MaxDepth
    /\ frames' = Append(frames, [node |-> node, entry |-> Cursor,
                                 locals |-> ScopeEntered(node),
                                 inner |-> {}])
    /\ hist' = Logged([op |-> "enter", node |-> node, pre |-> Snapshot])
    /\ UNCHANGED <<provider, indent_tokens, tokens, line, column, metadata,
                   exc, failed_at, keep, call>>

\* record_syntactic_position is left, by return or by exception.
ExitScope(tracked) ==
    /\ frames # << >>
    /\ LET frame == frames[Len(frames)]
           rest == SubSeq(frames, 1, Len(frames) - 1)
       IN  /\ metadata' = ScopeLeft(metadata, frame.node, frame.locals)
           /\ hist' = Logged([op |-> "exit", node |-> frame.node,
                              entry |-> frame.entry, inner |-> frame.inner,
                              pre |-> Snapshot])
           /\ frames' = IF tracked
                        THEN ClosedInside(rest, {frame.node} \cup frame.inner)
                        ELSE rest
    /\ UNCHANGED <<provider, indent_tokens, tokens, line, column, exc,
                   failed_at, keep, call>>

\* A scope is opened.
record_syntactic_position_enter(node) ==
    /\ exc = NoException
    /\ EnterScope(node, FALSE)

\* The innermost scope is left: its body has returned (exc = NoException) or
\* has raised (the exception goes on to the enclosing scope).
record_syntactic_position_exit ==
    /\ frames # << >>
    /\ ExitScope(FALSE)

\* The same two, with the scopes closed inside each open scope kept.
nested_enter(node) ==
    /\ exc = NoException
    /\ EnterScope(node, TRUE)

nested_exit ==
    /\ frames # << >>
    /\ ExitScope(TRUE)

\* The emission of a node fails: a visit_required of its codegen raises.
emission_fails ==
    /\ exc = NoException
    /\ exc' = "TypeError"
    /\ failed_at' = Cursor
    /\ hist' = Logged([op |-> "raise", pre |-> Snapshot])
    /\ UNCHANGED <<provider, indent_tokens, tokens, line, column, metadata,
                   frames, keep, call>>

\* A render pass is over (completed, or failed back to its caller) and the
\* next one starts: a CodegenState (p basic) or a SyntacticCodegenState is
\* constructed with its defaults; the nodes keep their metadata.
new_render(p) ==
    /\ frames = << >>
    /\ provider' = p
    /\ indent_tokens' = << >>
    /\ tokens' = << >>
    /\ line' = 1
    /\ column' = 0
    /\ exc' = NoException
    /\ failed_at' = NoPosition
    /\ hist' = Logged([op |-> "render", pre |-> Snapshot])
    /\ UNCHANGED <<metadata, frames, keep, call>>

-----------------------------------------------------------------------------
(* The traversal helpers. A visitor is modelled by what node.visit(visitor)  *)
(* returns, call after call: a node (the visited one when the visitor       *)
(* leaves it unchanged, another one when it replaces it) or the removal     *)
(* sentinel.                                                                *)

VisitNodes == {"a", "b", "c"}

\* type(node).__name__
TypeName == [n \in VisitNodes |-> IF n = "b" THEN "Pass" ELSE "Name"]

FieldNames == {"body", "value"}

RemovalSentinel == "RemovalSentinel.REMOVE"

MaybeSentinelDefault == "MaybeSentinel.DEFAULT"

None == "None"

VisitReturns == VisitNodes \cup {RemovalSentinel}

NoValue == "no value"

NoError == << >>

NoCall == [op |-> "none"]

\* A call that returned value after visiting the nodes visited.
Returned(visited, value) ==
    [visited |-> visited, returned |-> TRUE, value |-> value,
     error |-> NoError]

\* A call that raised TypeError(message) after visiting the nodes visited.
Raised(visited, message) ==
    [visited |-> visited, returned |-> FALSE, value |-> NoValue,
     error |-> message]

\* The message of the TypeError of visit_required, piece by piece.
RemovalMessage(fieldname, node) ==
    <<"We got a RemovalSentinel while visiting a ", TypeName[node],
      ". This ", "node's parent does not allow it to be removed.">>

\* visit_required that hands the sentinel on to its caller.
visit_required_no_check(fieldname, node, visitor) ==
    Returned(<<node>>, visitor[1])

visit_required(fieldname, node, visitor) ==
    LET result == visitor[1] IN
    IF result = RemovalSentinel
    THEN Raised(<<node>>, RemovalMessage(fieldname, node))
    ELSE Returned(<<node>>, result)

\* visit_optional that hands the sentinel on to its caller.
visit_optional_no_collapse(fieldname, node, visitor) ==
    IF node = None THEN Returned(<< >>, None)
    ELSE Returned(<<node>>, visitor[1])

visit_optional(fieldname, node, visitor) ==
    IF node = None THEN Returned(<< >>, None)
    ELSE LET result == visitor[1] IN
         Returned(<<node>>, IF result = RemovalSentinel THEN None ELSE result)

\* visit_sentinel that answers a removal with None, as visit_optional does.
visit_sentinel_none(fieldname, node, visitor) ==
    IF node = MaybeSentinelDefault THEN Returned(<< >>, MaybeSentinelDefault)
    ELSE LET result == visitor[1] IN
         Returned(<<node>>, IF result = RemovalSentinel THEN None ELSE result)

visit_sentinel(fieldname, node, visitor) ==
    IF node = MaybeSentinelDefault THEN Returned(<< >>, MaybeSentinelDefault)
    ELSE LET result == visitor[1] IN
         Returned(<<node>>,
                  IF result = RemovalSentinel THEN MaybeSentinelDefault
                  ELSE result)

\* The loop of visit_iterable ended by the first removal (break for skip).
RECURSIVE IterateUntilRemoval(_, _, _, _, _)
IterateUntilRemoval(children, visitor, i, visited, yielded) ==
    IF i > Len(children)
    THEN [visited |-> visited, yielded |-> yielded]
    ELSE LET new_child == visitor[i] IN
         IF new_child = RemovalSentinel
         THEN [visited |-> Append(visited, children[i]), yielded |-> yielded]
         ELSE IterateUntilRemoval(children, visitor, i + 1,
                                  Append(visited, children[i]),
                                  Append(yielded, new_child))

\* The loop of visit_iterable from child i on, run to its end: the children
\* visited and the children yielded.
RECURSIVE IterateFrom(_, _, _, _, _)
IterateFrom(children, visitor, i, visited, yielded) ==
    IF i > Len(children)
    THEN [visited |-> visited, yielded |-> yielded]
    ELSE LET new_child == visitor[i] IN
         IterateFrom(children, visitor, i + 1, Append(visited, children[i]),
                     IF new_child # RemovalSentinel
                     THEN Append(yielded, new_child)
                     ELSE yielded)

\* visit_iterable, consumed to its end.
visit_iterable(fieldname, children, visitor) ==
    IterateFrom(children, visitor, 1, << >>, << >>)

\* visit_sequence: tuple(visit_iterable(...)).
visit_sequence(fieldname, children, visitor) ==
    LET run == visit_iterable(fieldname, children, visitor) IN
    Returned(run.visited, run.yielded)

RECURSIVE SeqsOfLen(_, _)
SeqsOfLen(S, n) ==
    IF n = 0 THEN {<< >>}
    ELSE {Append(s, x) : s \in SeqsOfLen(S, n - 1), x \in S}

SeqsUpTo(S, n) == UNION {SeqsOfLen(S, k) : k \in 0..n}

\* A traversal helper is called, once in a run of the traversal machine; the
\* codegen state has no part in it.
Called(op, fieldname, arg, visitor, outcome) ==
    /\ call' = [op |-> op, fieldname |-> fieldname, arg |-> arg,
                visitor |-> visitor, visited |-> outcome.visited,
                returned |-> outcome.returned, value |-> outcome.value,
                error |-> outcome.error]
    /\ UNCHANGED <<provider, indent_tokens, tokens, line, column, metadata,
                   frames, exc, failed_at, hist, keep>>

call_visit_required ==
    /\ call = NoCall
    /\ \E fieldname \in FieldNames, node \in VisitNodes,
          visitor \in SeqsOfLen(VisitReturns, 1) :
           Called("visit_required", fieldname, node, visitor,
                  visit_required(fieldname, node, visitor))

call_visit_optional ==
    /\ call = NoCall
    /\ \E fieldname \in FieldNames, node \in VisitNodes \cup {None},
          visitor \in SeqsOfLen(VisitReturns, 1) :
           Called("visit_optional", fieldname, node, visitor,
                  visit_optional(fieldname, node, visitor))

call_visit_sentinel ==
    /\ call = NoCall
    /\ \E fieldname \in FieldNames,
          node \in VisitNodes \cup {MaybeSentinelDefault},
          visitor \in SeqsOfLen(VisitReturns, 1) :
           Called("visit_sentinel", fieldname, node, visitor,
                  visit_sentinel(fieldname, node, visitor))

call_visit_sequence ==
    /\ call = NoCall
    /\ \E fieldname \in FieldNames, children \in SeqsUpTo(VisitNodes, MaxChildren) :
           \E visitor \in SeqsOfLen(VisitReturns, Len(children)) :
               Called("visit_sequence", fieldname, children, visitor,
                      visit_sequence(fieldname, children, visitor))

\* visit_iterable visiting every remaining child before its first yield.
RECURSIVE AdvanceEager(_, _, _, _)
AdvanceEager(children, visitor, pos, visited) ==
    IF pos > Len(children)
    THEN [pos |-> pos, visited |-> visited, out |-> << >>, done |-> TRUE]
    ELSE LET new_child == visitor[pos] IN
         IF new_child # RemovalSentinel
         THEN [pos |-> pos + 1,
               visited |-> visited \o SubSeq(children, pos, Len(children)),
               out |-> <<new_child>>, done |-> FALSE]
         ELSE AdvanceEager(children, visitor, pos + 1,
                           Append(visited, children[pos]))

\* The generator of visit_iterable resumed at child pos: the loop runs to its
\* next yield or to its end. out holds the child yielded, if any.
RECURSIVE Advance(_, _, _, _)
Advance(children, visitor, pos, visited) ==
    IF pos > Len(children)
    THEN [pos |-> pos, visited |-> visited, out |-> << >>, done |-> TRUE]
    ELSE LET new_child == visitor[pos] IN
         IF new_child # RemovalSentinel
         THEN [pos |-> pos + 1, visited |-> Append(visited, children[pos]),
               out |-> <<new_child>>, done |-> FALSE]
         ELSE Advance(children, visitor, pos + 1,
                      Append(visited, children[pos]))

\* visit_iterable(fieldname, children, visitor) is called: the generator is
\* created and no line of its body has run.
create_visit_iterable ==
    /\ call = NoCall
    /\ \E fieldname \in FieldNames, children \in SeqsUpTo(VisitNodes, MaxChildren) :
           \E visitor \in SeqsOfLen(VisitReturns, Len(children)) :
               call' = [op |-> "visit_iterable", fieldname |-> fieldname,
                        arg |-> children, visitor |-> visitor,
                        visited |-> << >>, returned |-> TRUE,
                        value |-> << >>, error |-> NoError,
                        pos |-> 1, status |-> "created", before |-> 0,
                        again |-> FALSE]
    /\ UNCHANGED <<provider, indent_tokens, tokens, line, column, metadata,
                   frames, exc, failed_at, hist, keep>>

\* The caller takes the next element of the generator: the body runs to its
\* next yield, or to its end (StopIteration). A generator that ended stays
\* ended when it is asked again.
next_visit_iterable ==
    /\ call.op = "visit_iterable"
    /\ ~call.again
    /\ call' =
           IF call.status = "exhausted"
           THEN [call EXCEPT !.again = TRUE, !.before = Len(call.visited)]
           ELSE LET step == Advance(call.arg, call.visitor, call.pos,
                                    call.visited)
                IN  [call EXCEPT !.pos = step.pos,
                                 !.visited = step.visited,
                                 !.value = @ \o step.out,
                                 !.status = IF step.done THEN "exhausted"
                                            ELSE "suspended",
                                 !.before = Len(call.visited)]
    /\ UNCHANGED <<provider, indent_tokens, tokens, line, column, metadata,
                   frames, exc, failed_at, hist, keep>>

-----------------------------------------------------------------------------
(* The machines.                                                            *)

InitState(p, k) ==
    /\ provider = p
    /\ indent_tokens = << >>
    /\ tokens = << >>
    /\ line = 1
    /\ column = 0
    /\ metadata = [n \in Nodes |-> EmptyDict]
    /\ frames = << >>
    /\ exc = NoException
    /\ failed_at = NoPosition
    /\ hist = << >>
    /\ keep = k
    /\ call = NoCall

\* One render with a CodegenState or a SyntacticCodegenState, from its
\* defaults: every operation of the state, with few values.
Init ==
    \E p \in {BasicPositionProvider, SyntacticPositionProvider} :
        InitState(p, 1)

Next ==
    \/ \E value \in EmitValues : add_token(value)
    \/ \E node \in Nodes, position \in RangeValues :
           record_position(node, position)
    \/ \E node \in Nodes : record_syntactic_position_enter(node)
    \/ record_syntactic_position_exit
    \/ emission_fails

Spec == Init /\ [][Next]_vars

\* The cursor machine: add_token alone, with every bounded value.
InitCursor == InitState(BasicPositionProvider, 1)

NextCursor ==
    \/ \E value \in TokenValues : add_token(value)
    \/ add_example_token

SpecCursor == InitCursor /\ [][NextCursor]_vars

\* The indentation machine: the operations on the indent stack and the two
\* emitting ones, with the last BlockOps operations kept.
InitIndent == InitState(BasicPositionProvider, BlockOps)

NextIndent ==
    \/ \E value \in {<<"a">>} : add_token(value)
    \/ \E value \in IndentValues : increase_indent(value)
    \/ decrease_indent
    \/ add_indent_tokens
    \/ emission_fails

SpecIndent == InitIndent /\ [][NextIndent]_vars

\* The nesting machine: one render with a SyntacticCodegenState constructed
\* with or without an indent token, its scopes and its emitting operations,
\* each open scope with the scopes closed in it.
InitNesting ==
    /\ provider = SyntacticPositionProvider
    /\ indent_tokens \in {<< >>, << <<"\t">> >>}
    /\ tokens = << >>
    /\ line = 1
    /\ column = 0
    /\ metadata = [n \in Nodes |-> EmptyDict]
    /\ frames = << >>
    /\ exc = NoException
    /\ failed_at = NoPosition
    /\ hist = << >>
    /\ keep = 1
    /\ call = NoCall

NextNesting ==
    \/ \E value \in EmitValues : add_token(value)
    \/ add_indent_tokens
    \/ \E node \in Nodes : nested_enter(node)
    \/ nested_exit

SpecNesting == InitNesting /\ [][NextNesting]_vars

\* The machine of repeated renders of one shared node: render passes with
\* either kind of state, one after the other, each recording positions of
\* the node, which keeps its metadata from pass to pass.
SharedNodes == {"parent"}

InitRenders ==
    \E p \in {BasicPositionProvider, SyntacticPositionProvider} :
        InitState(p, 1)

NextRenders ==
    \/ \E value \in EmitValues : add_token(value)
    \/ \E node \in SharedNodes, position \in RangeValues :
           record_position(node, position)
    \/ \E node \in SharedNodes : record_syntactic_position_enter(node)
    \/ record_syntactic_position_exit
    \/ \E p \in {BasicPositionProvider, SyntacticPositionProvider} :
           new_render(p)

SpecRenders == InitRenders /\ [][NextRenders]_vars

\* The machine of all operations of a state: one render with a CodegenState
\* or a SyntacticCodegenState and every operation of it, on one node.
InitAll ==
    \E p \in {BasicPositionProvider, SyntacticPositionProvider} :
        InitState(p, 1)

NextAll ==
    \/ \E value \in EmitValues : add_token(value)
    \/ increase_indent(<<"\t">>)
    \/ decrease_indent
    \/ add_indent_tokens
    \/ \E node \in SharedNodes, position \in RangeValues :
           record_position(node, position)
    \/ \E node \in SharedNodes : record_syntactic_position_enter(node)
    \/ record_syntactic_position_exit
    \/ emission_fails

SpecAll == InitAll /\ [][NextAll]_vars

\* The traversal machine: calls of the traversal helpers, one after the other.
InitVisit == InitState(BasicPositionProvider, 1)

NextVisit ==
    \/ call_visit_required
    \/ call_visit_optional
    \/ call_visit_sentinel
    \/ call_visit_sequence
    \/ create_visit_iterable
    \/ next_visit_iterable

SpecVisit == InitVisit /\ [][NextVisit]_vars

-----------------------------------------------------------------------------
(* Cursor arithmetic, stated on the text itself.                            *)

IsNewlineChar(c) == c = CR \/ c = LF

\* The places of value where a newline ends: every "\r", and every "\n" but
\* the one that directly follows a "\r" (the two are one newline).
NewlineStarts(value) ==
    {i \in 1..Len(value) :
        \/ value[i] = CR
        \/ value[i] = LF /\ (i = 1 \/ value[i - 1] # CR)}

NewlineCount(value) == Cardinality(NewlineStarts(value))

\* The number of characters of value after its last newline character.
LengthAfterLastNewline(value) ==
    LET at == {i \in 1..Len(value) : IsNewlineChar(value[i])} IN
    Len(value) - (CHOOSE i \in at : \A j \in at : j <= i)

\* The cursors of the example, after each of its tokens.
ExampleCursors ==
    <<CodePosition(1, 3), CodePosition(2, 3), CodePosition(3, 0),
      CodePosition(3, 1)>>

LastOp == IF hist = << >> THEN "none" ELSE hist[1].op

\* C1: add_token(value) leaves line unchanged and adds len(value) to column
\* when value holds no newline; otherwise it adds the number of newlines
\* ("\n", "\r" and "\r\n" each one) to line and sets column to the length of
\* the text after the last newline. From (1,0), "abc", "de\nfgh", "\r\n", "x"
\* give (1,3), (2,3), (3,0), (3,1).
C1_CursorArithmetic ==
    /\ LastOp = "add_token" =>
        LET value == hist[1].value
            pre == hist[1].pre
        IN  IF NewlineCount(value) = 0
            THEN line = pre.line /\ column = pre.column + Len(value)
            ELSE /\ line = pre.line + NewlineCount(value)
                 /\ column = LengthAfterLastNewline(value)
    /\ \A k \in 1..Len(ExampleTokens) :
        tokens = SubSeq(ExampleTokens, 1, k) => Cursor = ExampleCursors[k]

\* The whole example has been emitted, its last token after a "\r\n" token.
C1_Witness ==
    /\ tokens = ExampleTokens
    /\ LastOp = "add_token"
    /\ hist[1].pre.line = 3 /\ hist[1].pre.column = 0
    /\ Cursor = CodePosition(3, 1)

\* The cursor a snapshot holds.
CursorOf(st) == CodePosition(st.line, st.column)

\* C2: record_position is first-write-wins per (node, active provider): the
\* call stores its range only when the node has no entry yet for the active
\* provider; a node that holds P1 keeps P1 when P2 # P1 is recorded for it.
\* The call changes no other entry of any node.
C2_FirstWriteWins ==
    LastOp = "record_position" =>
        LET e == hist[1]
            before == e.pre.metadata
            had == provider \in DOMAIN before[e.node]
        IN  /\ provider \in DOMAIN metadata[e.node]
            /\ metadata[e.node][provider] =
                   IF had THEN before[e.node][provider] ELSE e.position
            /\ \A n \in Nodes :
                   /\ DOMAIN metadata[n] =
                          DOMAIN before[n] \cup
                              (IF n = e.node THEN {provider} ELSE {})
                   /\ \A p \in DOMAIN before[n] : metadata[n][p] = before[n][p]

\* P2 has been recorded for a node of a basic render that held P1: it
\* holds P1.
C2_Witness ==
    /\ LastOp = "record_position"
    /\ provider = BasicPositionProvider
    /\ hist[1].position = P2
    /\ provider \in DOMAIN hist[1].pre.metadata[hist[1].node]
    /\ hist[1].pre.metadata[hist[1].node][provider] = P1
    /\ metadata[hist[1].node][provider] = P1

\* The last three operations were increase_indent, add_indent_tokens and
\* decrease_indent, in this order.
IndentedBlockDone ==
    /\ Len(hist) >= 3
    /\ hist[3].op = "increase_indent"
    /\ hist[2].op = "add_indent_tokens"
    /\ hist[1].op = "decrease_indent"

\* C8: increase_indent(t), add_indent_tokens(), decrease_indent() leave the
\* indent stack as it was before increase_indent; the output buffer keeps the
\* indentation that add_indent_tokens emitted, and the pop changes neither
\* the buffer nor the cursor.
C8_IndentBalance ==
    IndentedBlockDone =>
        LET before == hist[3].pre
            t == hist[3].value
        IN  /\ exc = NoException
            /\ indent_tokens = before.indent_tokens
            /\ tokens = (before.tokens \o before.indent_tokens) \o <<t>>
            /\ tokens = hist[1].pre.tokens
            /\ Cursor = CursorOf(hist[1].pre)

\* An indented block inside another one has been emitted and closed.
C8_Witness ==
    /\ IndentedBlockDone
    /\ hist[3].pre.indent_tokens # << >>
    /\ hist[3].value # hist[3].pre.indent_tokens[1]
    /\ indent_tokens = hist[3].pre.indent_tokens
    /\ Len(tokens) = 2

\* C9: decrease_indent() on an empty indent stack fails, and leaves the
\* indent stack, the output buffer and the cursor as they were.
C9_PopEmptyFails ==
    (LastOp = "decrease_indent" /\ hist[1].pre.indent_tokens = << >>) =>
        /\ exc # NoException
        /\ indent_tokens = << >>
        /\ tokens = hist[1].pre.tokens
        /\ Cursor = CursorOf(hist[1].pre)

\* decrease_indent has failed on an empty stack after some emission.
C9_Witness ==
    /\ LastOp = "decrease_indent"
    /\ hist[1].pre.indent_tokens = << >>
    /\ hist[1].pre.tokens # << >>
    /\ exc = "IndexError"

\* C10: when a record_syntactic_position scope of a SyntacticCodegenState is
\* left, by return or by failure, the node holds under the syntactic provider
\* the range from the cursor at the entry to the cursor at the exit; on
\* failure the end is the cursor where the failure happened, and the failure
\* goes on to the caller.
C10_ScopeRangeOnEveryExit ==
    (LastOp = "exit" /\ provider = SyntacticPositionProvider) =>
        LET e == hist[1] IN
        /\ SyntacticPositionProvider \in DOMAIN metadata[e.node]
        /\ metadata[e.node][SyntacticPositionProvider] =
               CodeRange(e.entry, CursorOf(e.pre))
        /\ exc = e.pre.exc
        /\ e.pre.exc # NoException =>
               metadata[e.node][SyntacticPositionProvider].end = failed_at

\* A scope that emitted something and then failed has been left, and the
\* failure is still in flight.
C10_Witness ==
    /\ LastOp = "exit"
    /\ provider = SyntacticPositionProvider
    /\ exc # NoException
    /\ hist[1].entry # failed_at
    /\ metadata[hist[1].node][SyntacticPositionProvider] =
           CodeRange(hist[1].entry, failed_at)

\* C3: visit_required visits the node exactly once; when the visit returns
\* the removal sentinel the call raises and returns no node, otherwise it
\* returns the node the visit returned.
C3_RequiredRejectsRemoval ==
    call.op = "visit_required" =>
        /\ call.visited = <<call.arg>>
        /\ call.visitor[1] = RemovalSentinel =>
               /\ ~call.returned
               /\ call.error # NoError
               /\ call.value = NoValue
        /\ call.visitor[1] # RemovalSentinel =>
               /\ call.returned
               /\ call.error = NoError
               /\ call.value = call.visitor[1]

\* visit_required has raised on a removal.
C3_Witness ==
    /\ call.op = "visit_required"
    /\ call.visitor[1] = RemovalSentinel
    /\ call.visited = <<call.arg>>
    /\ ~call.returned

\* Whether an error message holds word.
Mentions(message, word) == \E i \in DOMAIN message : message[i] = word

\* C4: the error visit_required raises on a removal names the field name it
\* was called with and the type of the visited node.
C4_ErrorNamesFieldAndType ==
    (call.op = "visit_required" /\ ~call.returned) =>
        /\ Mentions(call.error, call.fieldname)
        /\ Mentions(call.error, TypeName[call.arg])

\* C5: visit_optional returns None without a visit when the slot is None;
\* otherwise it visits the node exactly once, returns None when the visit
\* returns the removal sentinel and else what the visit returned. It never
\* raises.
C5_OptionalCollapsesToNone ==
    call.op = "visit_optional" =>
        /\ call.returned
        /\ call.error = NoError
        /\ call.arg = None => (call.visited = << >> /\ call.value = None)
        /\ call.arg # None =>
               /\ call.visited = <<call.arg>>
               /\ call.visitor[1] = RemovalSentinel => call.value = None
               /\ call.visitor[1] # RemovalSentinel =>
                      call.value = call.visitor[1]

\* visit_optional has returned None for a node that the visitor removed.
C5_Witness ==
    /\ call.op = "visit_optional"
    /\ call.arg \in VisitNodes
    /\ call.visitor[1] = RemovalSentinel
    /\ call.returned
    /\ call.value = None

\* C6: visit_sentinel returns the placeholder without a visit when the slot
\* holds the placeholder; otherwise it visits the node exactly once, returns
\* the placeholder (never None) when the visit returns the removal sentinel
\* and else what the visit returned.
C6_SentinelCollapsesToPlaceholder ==
    call.op = "visit_sentinel" =>
        /\ call.returned
        /\ call.value # None
        /\ call.arg = MaybeSentinelDefault =>
               (call.visited = << >> /\ call.value = MaybeSentinelDefault)
        /\ call.arg # MaybeSentinelDefault =>
               /\ call.visited = <<call.arg>>
               /\ call.visitor[1] = RemovalSentinel =>
                      call.value = MaybeSentinelDefault
               /\ call.visitor[1] # RemovalSentinel =>
                      call.value = call.visitor[1]

\* visit_sentinel has returned the placeholder for a node that the visitor
\* removed.
C6_Witness ==
    /\ call.op = "visit_sentinel"
    /\ call.arg \in VisitNodes
    /\ call.visitor[1] = RemovalSentinel
    /\ call.value = MaybeSentinelDefault

\* The children of a visit_sequence call that the visitor did not remove.
KeptChildren == {i \in 1..Len(call.arg) : call.visitor[i] # RemovalSentinel}

\* C7: visit_sequence returns the results of the visits of the children in
\* the order of the children, without those that are the removal sentinel:
\* the result of the k-th child that is not removed stands at place k, and
\* the result holds no removal sentinel. Removing only b from [a, b, c] gives
\* [a, c]; removing all gives [].
C7_SequenceDropsRemoved ==
    call.op = "visit_sequence" =>
        /\ call.returned
        /\ Len(call.value) = Cardinality(KeptChildren)
        /\ \A i \in KeptChildren :
               call.value[Cardinality({j \in KeptChildren : j <= i})] =
                   call.visitor[i]
        /\ \A k \in 1..Len(call.value) : call.value[k] # RemovalSentinel
        /\ (call.arg = <<"a", "b", "c">> /\
            call.visitor = <<"a", RemovalSentinel, "c">>) =>
               call.value = <<"a", "c">>
        /\ (\A i \in 1..Len(call.arg) : call.visitor[i] = RemovalSentinel) =>
               call.value = << >>

\* From [a, b, c] the visitor has replaced a, removed b and kept c.
C7_Witness ==
    /\ call.op = "visit_sequence"
    /\ call.arg = <<"a", "b", "c">>
    /\ call.visitor = <<"b", RemovalSentinel, "c">>
    /\ call.value = <<"b", "c">>

\* The order of positions: by line, then by column.
PosLE(p, q) == p.line < q.line \/ (p.line = q.line /\ p.column <= q.column)

PosLT(p, q) == PosLE(p, q) /\ p # q

SyntacticRange(node) == metadata[node][SyntacticPositionProvider]

\* C11: when the scope of a parent node is left, every node whose scope was
\* opened and closed inside it holds a range inside the range of the parent:
\* range(parent).start <= range(child).start and
\* range(child).end <= range(parent).end.
C11_RangeNesting ==
    LastOp = "exit" =>
        \A child \in hist[1].inner :
            /\ PosLE(SyntacticRange(hist[1].node).start,
                     SyntacticRange(child).start)
            /\ PosLE(SyntacticRange(child).end,
                     SyntacticRange(hist[1].node).end)

\* The scope of parent has been left with the scope of child closed inside
\* it, something emitted before and after the scope of the child.
C11_Witness ==
    /\ LastOp = "exit"
    /\ hist[1].node = "parent"
    /\ "child" \in hist[1].inner
    /\ PosLT(SyntacticRange("parent").start, SyntacticRange("child").start)
    /\ PosLT(SyntacticRange("child").end, SyntacticRange("parent").end)

\* The entries the nodes held before the last operation.
MetadataBefore == hist[1].pre.metadata

\* C12 as stated: once a range is recorded for a node under a provider, every
\* later operation (record_position or record_syntactic_position, either
\* kind of state, any render pass, any occurrence of the node) keeps it.
C12_FirstRecordedKept ==
    hist # << >> =>
        \A n \in Nodes : \A p \in DOMAIN MetadataBefore[n] :
            /\ p \in DOMAIN metadata[n]
            /\ metadata[n][p] = MetadataBefore[n][p]

\* C12: no operation removes an entry of a node's metadata, and an entry
\* once recorded is kept by every operation but one: leaving a
\* record_syntactic_position scope of a SyntacticCodegenState stores the
\* range of that occurrence under the syntactic provider whether the node
\* holds one or not. record_position never replaces an entry and the basic
\* provider's entry never changes.
C12_OnlySyntacticScopeReplaces ==
    hist # << >> =>
        \A n \in Nodes : \A p \in DOMAIN MetadataBefore[n] :
            /\ p \in DOMAIN metadata[n]
            /\ metadata[n][p] # MetadataBefore[n][p] =>
                   /\ LastOp = "exit"
                   /\ n = hist[1].node
                   /\ p = SyntacticPositionProvider
                   /\ provider = SyntacticPositionProvider
                   /\ metadata[n][p] =
                          CodeRange(hist[1].entry, CursorOf(hist[1].pre))

\* A node that held both providers' entries has had its syntactic range
\* replaced by a later scope, its basic entry kept.
C12_Witness ==
    /\ LastOp = "exit"
    /\ DOMAIN MetadataBefore[hist[1].node] =
           {BasicPositionProvider, SyntacticPositionProvider}
    /\ metadata[hist[1].node][SyntacticPositionProvider] #
           MetadataBefore[hist[1].node][SyntacticPositionProvider]
    /\ metadata[hist[1].node][BasicPositionProvider] =
           MetadataBefore[hist[1].node][BasicPositionProvider]

\* The results, in order, of the first n visits that are not removals.
RECURSIVE KeptResults(_, _)
KeptResults(visitor, n) ==
    IF n = 0 THEN << >>
    ELSE IF visitor[n] = RemovalSentinel THEN KeptResults(visitor, n - 1)
         ELSE Append(KeptResults(visitor, n - 1), visitor[n])

\* C13: visit_iterable is lazy and single-pass. Creating the result visits
\* no child. The children visited are at every moment the first children in
\* their order, each once, and the values produced are the results of those
\* visits that are not removals. A step that produces a value stops at the
\* first child whose result is not removed: every child it visited before
\* that one was removed. A step that ends the result has visited every child,
\* and asking again visits nothing. visit_sequence has visited every child, in
\* order, when it returns.
C13_IterableLazySinglePass ==
    /\ call.op = "visit_iterable" =>
           LET n == Len(call.visited) IN
           /\ call.status = "created" => call.visited = << >>
           /\ n <= Len(call.arg)
           /\ call.visited = SubSeq(call.arg, 1, n)
           /\ call.value = KeptResults(call.visitor, n)
           /\ call.status = "suspended" =>
                  /\ n > call.before
                  /\ call.visitor[n] # RemovalSentinel
                  /\ \A i \in (call.before + 1)..(n - 1) :
                         call.visitor[i] = RemovalSentinel
           /\ call.status = "exhausted" =>
                  /\ call.visited = call.arg
                  /\ \A i \in (call.before + 1)..n :
                         call.visitor[i] = RemovalSentinel
    /\ call.op = "visit_sequence" => call.visited = call.arg

\* One step of the result of visit_iterable over three children has visited
\* the removed first child and the second child, and not yet the third.
C13_Witness ==
    /\ call.op = "visit_iterable"
    /\ call.status = "suspended"
    /\ Len(call.arg) = 3
    /\ call.visitor[1] = RemovalSentinel
    /\ call.visited = SubSeq(call.arg, 1, 2)
    /\ call.value = <<call.visitor[2]>>

\* The buffer and the cursor after add_token(t) for each t of toks, in order,
\* from the buffer and the cursor of st.
RECURSIVE AddTokenEach(_, _)
AddTokenEach(st, toks) ==
    IF toks = << >> THEN st
    ELSE AddTokenEach([tokens |-> Append(st.tokens, Head(toks)),
                       cursor |-> UpdatePosition(st.cursor, Head(toks))],
                      Tail(toks))

\* C14: add_indent_tokens() leaves the buffer and the cursor as add_token of
\* each token of the indent stack would, from the outermost to the innermost;
\* it leaves the indent stack unchanged, and with an empty stack it changes
\* neither the buffer nor the cursor.
C14_AddIndentTokensAsAddTokens ==
    LastOp = "add_indent_tokens" =>
        LET pre == hist[1].pre
            each == AddTokenEach([tokens |-> pre.tokens,
                                  cursor |-> CursorOf(pre)],
                                 pre.indent_tokens)
        IN  /\ tokens = each.tokens
            /\ Cursor = each.cursor
            /\ indent_tokens = pre.indent_tokens
            /\ pre.indent_tokens = << >> =>
                   tokens = pre.tokens /\ Cursor = CursorOf(pre)

\* add_indent_tokens has emitted a stack of two different tokens.
C14_Witness ==
    /\ LastOp = "add_indent_tokens"
    /\ hist[1].pre.indent_tokens = << <<"\t">>, <<" ", " ">> >>
    /\ tokens = hist[1].pre.tokens \o << <<"\t">>, <<" ", " ">> >>
    /\ column = hist[1].pre.column + 3

\* The state the last operation was called in.
Before == hist[1].pre

IsPrefix(s, t) == Len(s) <= Len(t) /\ SubSeq(t, 1, Len(s)) = s

\* C15: the output buffer is append-only and verbatim. Every operation
\* leaves the fragments emitted before it unchanged and in their order;
\* add_token(value) appends exactly value as the last fragment and
\* add_indent_tokens appends the indent stack; increase_indent,
\* decrease_indent, record_position and record_syntactic_position (entry and
\* exit) change neither the buffer nor the cursor.
C15_BufferAppendOnly ==
    hist # << >> =>
        /\ IsPrefix(Before.tokens, tokens)
        /\ LastOp = "add_token" =>
               tokens = Append(Before.tokens, hist[1].value)
        /\ LastOp = "add_indent_tokens" =>
               tokens = Before.tokens \o Before.indent_tokens
        /\ LastOp \in {"increase_indent", "decrease_indent",
                       "record_position", "enter", "exit"} =>
               /\ tokens = Before.tokens
               /\ Cursor = CursorOf(Before)

\* add_token has appended a second fragment behind a different first one.
C15_Witness ==
    /\ LastOp = "add_token"
    /\ Len(tokens) = 2
    /\ tokens[1] # tokens[2]
    /\ tokens[2] = hist[1].value

\* C16: under the basic CodegenState, entering and leaving a
\* record_syntactic_position scope, when the body returned and when it
\* raised, record nothing in the metadata of any node and change no field of
\* the state: buffer, cursor, indent stack and provider are those before the
\* step, and an exception in flight stays in flight.
C16_BasicScopeIsNoOp ==
    (LastOp \in {"enter", "exit"} /\ provider = BasicPositionProvider) =>
        /\ metadata = Before.metadata
        /\ tokens = Before.tokens
        /\ Cursor = CursorOf(Before)
        /\ indent_tokens = Before.indent_tokens
        /\ provider = Before.provider
        /\ exc = Before.exc

\* A scope of the basic state around an emission that failed has been left;
\* the node holds no entry.
C16_Witness ==
    /\ LastOp = "exit"
    /\ provider = BasicPositionProvider
    /\ exc # NoException
    /\ tokens # << >>
    /\ metadata[hist[1].node] = EmptyDict

Providers == {BasicPositionProvider, SyntacticPositionProvider}

\* The entry of node n under provider p, or none.
EntryOf(meta, n, p) == IF p \in DOMAIN meta[n] THEN <<meta[n][p]>> ELSE << >>

\* C17: the two providers are distinct keys that coexist on a node. Every
\* operation of a state leaves the entry of the other provider as it was,
\* present or absent: a basic CodegenState writes only the basic entry, a
\* SyntacticCodegenState (record_position and record_syntactic_position)
\* only the syntactic entry, and a recording stores its range under the
\* provider of the state. Starting a render writes nothing. A node rendered
\* with both kinds of state, in either order, holds both entries.
C17_ProvidersCoexist ==
    /\ BasicPositionProvider # SyntacticPositionProvider
    /\ hist # << >> =>
           \A n \in Nodes :
               /\ \A p \in Providers \ {Before.provider} :
                      EntryOf(metadata, n, p) = EntryOf(Before.metadata, n, p)
               /\ LastOp = "render" => metadata[n] = Before.metadata[n]
               /\ (LastOp = "exit" /\ IsSyntactic /\ n = hist[1].node) =>
                      EntryOf(metadata, n, SyntacticPositionProvider) =
                          <<CodeRange(hist[1].entry, CursorOf(Before))>>
               /\ (LastOp = "record_position" /\ n = hist[1].node) =>
                      EntryOf(metadata, n, provider) # << >>

\* In a render with a SyntacticCodegenState after one with a CodegenState, a
\* scope of the node has been left: the node holds the basic range of the
\* first render and the syntactic range of the second.
C17_Witness ==
    /\ LastOp = "exit"
    /\ IsSyntactic
    /\ BasicPositionProvider \in DOMAIN Before.metadata[hist[1].node]
    /\ SyntacticPositionProvider \notin DOMAIN Before.metadata[hist[1].node]
    /\ DOMAIN metadata[hist[1].node] = Providers
    /\ metadata[hist[1].node][BasicPositionProvider] =
           Before.metadata[hist[1].node][BasicPositionProvider]

\* The body of a block that called increase_indent d - 1 operations ago has
\* failed before any decrease_indent call: the operations since were
\* emissions, and the last one is the failure.
BlockFailed(d) ==
    /\ Len(hist) >= d
    /\ hist[d].op = "increase_indent"
    /\ hist[1].op = "raise"
    /\ \A i \in 2..(d - 1) : hist[i].op \in {"add_token", "add_indent_tokens"}

\* C18 as stated: when the body of a block that called increase_indent fails
\* before the block's decrease_indent call, the indent stack is the stack
\* from before the block.
C18_IndentRestoredOnFailure ==
    \A d \in 2..BlockOps :
        BlockFailed(d) => indent_tokens = hist[d].pre.indent_tokens

\* C18: increase_indent and decrease_indent are a plain push and pop with no
\* release on failure. When the body of a block that called
\* increase_indent(t) fails before the block's decrease_indent call, the
\* failure is in flight and the indent stack still holds t on top of the
\* stack from before the block; only a decrease_indent call takes it off.
C18_IndentKeptOnFailure ==
    \A d \in 2..BlockOps :
        BlockFailed(d) =>
            /\ exc # NoException
            /\ indent_tokens =
                   Append(hist[d].pre.indent_tokens, hist[d].value)

\* A block pushed an indent token, emitted the indentation and failed.
C18_Witness ==
    /\ BlockFailed(3)
    /\ hist[2].op = "add_indent_tokens"
    /\ indent_tokens = Append(hist[3].pre.indent_tokens, hist[3].value)
    /\ tokens = hist[3].pre.tokens \o indent_tokens

\* The text of a buffer: its fragments joined.
RECURSIVE Joined(_)
Joined(toks) == IF toks = << >> THEN << >> ELSE Head(toks) \o Joined(Tail(toks))

\* The position of the end of text, from (1,0), by the newline rule.
EndOfText(text) ==
    IF NewlineCount(text) = 0
    THEN CodePosition(1, Len(text))
    ELSE CodePosition(1 + NewlineCount(text), LengthAfterLastNewline(text))

\* C19: the cursor is exact with respect to the emitted text: after any
\* sequence of add_token calls from (1,0) and an empty buffer, the cursor is
\* the position that the newline rule gives for the whole buffer joined,
\* also when "\r" ends one token and "\n" starts the next.
C19_CursorExactForText == Cursor = EndOfText(Joined(tokens))

\* C20: in every state of a render started at (1,0), line >= 1 and
\* column >= 0; no operation moves the cursor backwards in the order of
\* positions; and the range that a record_syntactic_position scope of a
\* SyntacticCodegenState stores when it is left has start <= end.
C20_CursorMonotone ==
    /\ line >= 1
    /\ column >= 0
    /\ hist # << >> => PosLE(CursorOf(Before), Cursor)
    /\ (LastOp = "exit" /\ IsSyntactic) =>
           PosLE(SyntacticRange(hist[1].node).start,
                 SyntacticRange(hist[1].node).end)

\* A scope in which a newline was emitted after another newline has been
\* left: its range starts on a line after the first and ends on a later one.
C20_Witness ==
    /\ LastOp = "exit"
    /\ IsSyntactic
    /\ SyntacticRange(hist[1].node).start.line > 1
    /\ SyntacticRange(hist[1].node).start.line <
           SyntacticRange(hist[1].node).end.line

=============================================================================
